---- MODULE Spec2Model ----
(***************************************************************************)
(* State-machine model of the funding-arbitrage dashboard component        *)
(* (frontend/src/components/FundingArbitrageDashboard.js).                 *)
(*                                                                         *)
(* The component is a React function component with five useState cells,   *)
(* an async fetchData with one suspension point (the axios GET), a mount    *)
(* effect, and an effect keyed on autoRefresh that owns a setInterval.      *)
(* JavaScript runs each handler, timer callback and promise continuation    *)
(* to completion, and React applies the state updates of one such segment   *)
(* together, so each segment is one action.  State updates requested after  *)
(* the component is unmounted are dropped by React.                         *)
(*                                                                         *)
(* JS null/undefined is modelled as the empty sequence and a present value  *)
(* x as <<x>>.  Funding rates are integers in units of 1e-5, so that the    *)
(* literals 0.0005, 0.0001 and -0.0001 are 50, 10 and -10.                  *)
(***************************************************************************)
EXTENDS Integers, Sequences, FiniteSets, TLC

VARIABLES
    phase,        \* "rendered" (first render done, effects not yet run), "mounted", "unmounted"
    data,         \* useState(null): None or Some(response body)
    loading,      \* useState(true)
    error,        \* useState(null): None or Some(message)
    lastUpdated,  \* useState(null): None or Some(time of new Date())
    autoRefresh,  \* useState(true)
    intervals,    \* the browser's active setInterval timers: set of [id, due]
    cleanup,      \* the interval id captured by the autoRefresh effect's cleanup closure, or None
    nextInterval, \* ids handed out by setInterval
    inflight,     \* fetchData invocations suspended at the await: set of [id, src, start]
    nextFetch,    \* number of fetchData invocations started so far
    now,          \* wall clock, ms since first render
    settled,      \* history: the invocations that completed, in completion order
    enabledAt,    \* history: time of the latest mount / toggle-to-enabled, or None
    toggles,      \* history: number of auto-refresh toggle clicks
    fundingRate,  \* argument handed to getFundingBadgeVariant by the badge harness
    variant       \* its result, or None

vars == <<phase, data, loading, error, lastUpdated, autoRefresh, intervals, cleanup,
          nextInterval, inflight, nextFetch, now, settled, enabledAt, toggles,
          fundingRate, variant>>

view == <<data, loading, error, lastUpdated>>
harness == <<fundingRate, variant>>

----------------------------------------------------------------------------
(* Bounds *)

MaxFetches == 3        \* fetchData invocations per run
MaxToggles == 2        \* clicks on the auto-refresh button per run
MaxTicks == 4          \* clock steps per run
TicksPerInterval == 2  \* clock steps in one refresh interval
MaxRate == 60          \* badge harness: rates range over -MaxRate..MaxRate (1e-5 units)

(* Program constants *)

IntervalMs == 30000    \* setInterval(..., 30000)

TickMs == IntervalMs \div TicksPerInterval

----------------------------------------------------------------------------
(* JS values *)

None == <<>>
Some(x) == <<x>>
Get(o) == o[1]

\* JS truthiness of a string-or-null/undefined value: null, undefined and "" are falsy.
Truthy(o) == o # None /\ Get(o) # ""

\* a || b || c on optional strings: the first truthy operand, else the last operand.
OrElse(a, b) == IF Truthy(a) THEN a ELSE b

FallbackMessage == "Failed to fetch data"

----------------------------------------------------------------------------
(* The backend's possible answers *)

Row(sym, rate) == [symbol |-> sym, funding_rate |-> rate]

\* response.data of a resolved GET.  markets may be absent, empty or populated.
OkBodies ==
    { [success |-> TRUE, error |-> None, markets |-> m] :
        m \in { None, Some(<<>>), Some(<<Row("BTC", 60), Row("ETH", -20)>>) } }

ErrBodies ==
    { [success |-> FALSE, error |-> e, markets |-> None] :
        e \in { None, Some(""), Some("upstream unavailable") } }

\* A rejected GET: err.response?.data?.detail and err.message.
Rejections ==
    { [detail |-> d, message |-> m] :
        d \in { None, Some("Service Unavailable") },
        m \in { None, Some(""), Some("Network Error") } }

Outcomes ==
    { [kind |-> "resolve", body |-> Some(b), err |-> None] : b \in OkBodies \cup ErrBodies }
    \cup { [kind |-> "reject", body |-> None, err |-> Some(r)] : r \in Rejections }

----------------------------------------------------------------------------
(* Presentation: pure functions of the view state *)

\* Variant of the ladder with a non-strict first rung.
getFundingBadgeVariant_inclusive(rate) ==
    IF rate >= 50 THEN "success"
    ELSE IF rate > 10 THEN "warning"
    ELSE IF rate < -10 THEN "destructive"
    ELSE "secondary"

\* getFundingBadgeVariant, rate in 1e-5 units
getFundingBadgeVariant(rate) ==
    IF rate > 50 THEN "success"
    ELSE IF rate > 10 THEN "warning"
    ELSE IF rate < -10 THEN "destructive"
    ELSE "secondary"

\* The component's return branches, in source order.
Screen ==
    IF loading /\ data = None THEN "loading"
    ELSE IF Truthy(error) THEN "error"
    ELSE "main"

Placeholder == <<[placeholder |-> "No markets found with >$50M USD open interest"]>>

RenderRow(markets, i) ==
    [symbol  |-> markets[i].symbol,
     best    |-> (i = 1),
     variant |-> getFundingBadgeVariant(markets[i].funding_rate)]

\* <TableBody>: data?.markets?.map(...) || (placeholder row).  The left operand is
\* undefined when data or data.markets is absent; otherwise it is the mapped array,
\* and an array is truthy whatever its length.
TableBody ==
    IF data = None THEN Placeholder
    ELSE IF Get(data).markets = None THEN Placeholder
    ELSE [i \in 1..Len(Get(Get(data).markets)) |-> RenderRow(Get(Get(data).markets), i)]

----------------------------------------------------------------------------
(* fetchData *)

\* Variant that stores the envelope's error field without the fallback.
EnvelopeMessage_noFallback(body) == body.error

\* setError(response.data.error || 'Failed to fetch data')
EnvelopeMessage(body) == OrElse(body.error, Some(FallbackMessage))

\* setError(err.response?.data?.detail || err.message || 'Failed to fetch data')
CatchMessage(r) == OrElse(r.detail, OrElse(r.message, Some(FallbackMessage)))

\* Variant that does not clear the previous error when a fetch begins.
FetchBegin_keepError(src) ==
    /\ nextFetch < MaxFetches
    /\ loading' = TRUE
    /\ inflight' = inflight \cup {[id |-> nextFetch, src |-> src, start |-> now]}
    /\ nextFetch' = nextFetch + 1
    /\ UNCHANGED <<data, lastUpdated, error>>

\* fetchData up to the await: setLoading(true); setError(null); axios.get(...)
FetchBegin(src) ==
    /\ nextFetch < MaxFetches
    /\ loading' = TRUE
    /\ error' = None
    /\ inflight' = inflight \cup {[id |-> nextFetch, src |-> src, start |-> now]}
    /\ nextFetch' = nextFetch + 1
    /\ UNCHANGED <<data, lastUpdated>>

\* Variant that drops a success body when a later-issued request has already been applied.
AppliedData_newestIssued(f, body) ==
    IF \E i \in 1..Len(settled) : settled[i].ok /\ settled[i].id > f.id
    THEN data
    ELSE Some(body)

\* The value setData leaves in data when invocation f resolves with a success body.
AppliedData(f, body) == Some(body)

\* fetchData after the await, for invocation f and backend answer out:
\* the try body's if/else, the catch, and the finally.
FetchSettleView(f, out) ==
    IF out.kind = "resolve" /\ Get(out.body).success
    THEN /\ data' = AppliedData(f, Get(out.body))
         /\ lastUpdated' = Some(now)
         /\ loading' = FALSE
         /\ UNCHANGED error
    ELSE /\ error' = (IF out.kind = "resolve"
                      THEN EnvelopeMessage(Get(out.body))
                      ELSE CatchMessage(Get(out.err)))
         /\ loading' = FALSE
         /\ UNCHANGED <<data, lastUpdated>>

\* History entry for a completed invocation: its id, whether it took the success
\* branch, and the body it delivered there.
Entry(f, out) ==
    [id |-> f.id,
     ok |-> (out.kind = "resolve" /\ Get(out.body).success),
     body |-> IF out.kind = "resolve" /\ Get(out.body).success THEN out.body ELSE None]

FetchSettle ==
    \E f \in inflight, out \in Outcomes :
        /\ inflight' = inflight \ {f}
        /\ settled' = Append(settled, Entry(f, out))
        /\ IF phase = "mounted" THEN FetchSettleView(f, out) ELSE UNCHANGED view
        /\ UNCHANGED <<phase, autoRefresh, intervals, cleanup, nextInterval, nextFetch,
                       now, enabledAt, toggles, harness>>

----------------------------------------------------------------------------
(* Effects *)

\* Variant whose first call is due at once.
NewInterval_immediate(id) == [id |-> id, due |-> now]

\* setInterval(cb, 30000) called at time now: the first call of cb is due one period later.
NewInterval(id) == [id |-> id, due |-> now + IntervalMs]

\* Variant that leaves the timer running.
ClearInterval_leak(timers, id) == timers

\* clearInterval(id)
ClearInterval(timers, id) == { t \in timers : t.id # id }

\* The autoRefresh effect's cleanup, if the previous run of the effect returned one.
RunCleanup(timers) == IF cleanup = None THEN timers ELSE ClearInterval(timers, Get(cleanup))

\* Variant without the early return.
EffectArms_always(enabled) == TRUE

\* Whether the effect body gets past `if (!autoRefresh) return;` for the value enabled.
EffectArms(enabled) == enabled

\* useEffect(..., [autoRefresh]) re-run for the new value enabled: the previous cleanup,
\* then the effect body.
AutoRefreshEffect(enabled) ==
    IF EffectArms(enabled)
    THEN /\ intervals' = RunCleanup(intervals) \cup {NewInterval(nextInterval)}
         /\ cleanup' = Some(nextInterval)
         /\ nextInterval' = nextInterval + 1
         /\ enabledAt' = Some(now)
    ELSE /\ intervals' = RunCleanup(intervals)
         /\ cleanup' = None
         /\ UNCHANGED <<nextInterval, enabledAt>>

\* Commit of the first render: both effects run, in source order.
Mount ==
    /\ phase = "rendered"
    /\ phase' = "mounted"
    /\ FetchBegin("mount")
    /\ AutoRefreshEffect(autoRefresh)
    /\ UNCHANGED <<autoRefresh, now, settled, toggles, harness>>

\* Unmount: the effect's cleanup runs; requests in flight are left alone.
Unmount ==
    /\ phase = "mounted"
    /\ phase' = "unmounted"
    /\ intervals' = RunCleanup(intervals)
    /\ cleanup' = None
    /\ UNCHANGED <<view, autoRefresh, nextInterval, inflight, nextFetch, now, settled,
                   enabledAt, toggles, harness>>

----------------------------------------------------------------------------
(* Timer and user events *)

\* When a repeating timer whose call was due at `due` is next due, once its callback
\* has run at time now.  The host decides: some keep the original schedule (one period
\* after the time the call was due, so a late call is followed by an early one), others
\* count one period from the call itself.
Rearm(due) == { due + IntervalMs, now + IntervalMs }

\* The interval callback: () => { fetchData(); }.  A timer never fires early.
IntervalFires ==
    \E t \in intervals :
        /\ now >= t.due
        /\ FetchBegin("timer")
        /\ \E d \in Rearm(t.due) :
              intervals' = (intervals \ {t}) \cup {[t EXCEPT !.due = d]}
        /\ UNCHANGED <<phase, autoRefresh, cleanup, nextInterval, now, settled,
                       enabledAt, toggles, harness>>

\* The Refresh button exists on the main screen and is disabled while loading.
ClickRefresh ==
    /\ phase = "mounted" /\ Screen = "main" /\ ~loading
    /\ FetchBegin("manual")
    /\ UNCHANGED <<phase, autoRefresh, intervals, cleanup, nextInterval, now, settled,
                   enabledAt, toggles, harness>>

\* The Retry button exists on the error screen.
ClickRetry ==
    /\ phase = "mounted" /\ Screen = "error"
    /\ FetchBegin("manual")
    /\ UNCHANGED <<phase, autoRefresh, intervals, cleanup, nextInterval, now, settled,
                   enabledAt, toggles, harness>>

\* The auto-refresh button (main screen): setAutoRefresh(!autoRefresh), then the
\* re-render's effect.
ClickToggle ==
    /\ phase = "mounted" /\ Screen = "main"
    /\ toggles < MaxToggles
    /\ toggles' = toggles + 1
    /\ autoRefresh' = ~autoRefresh
    /\ AutoRefreshEffect(~autoRefresh)
    /\ UNCHANGED <<phase, view, inflight, nextFetch, now, settled, harness>>

Tick ==
    /\ now < MaxTicks * TickMs
    /\ now' = now + TickMs
    /\ UNCHANGED <<phase, view, autoRefresh, intervals, cleanup, nextInterval, inflight,
                   nextFetch, settled, enabledAt, toggles, harness>>

----------------------------------------------------------------------------

Init ==
    /\ phase = "rendered"
    /\ data = None
    /\ loading = TRUE
    /\ error = None
    /\ lastUpdated = None
    /\ autoRefresh = TRUE
    /\ intervals = {}
    /\ cleanup = None
    /\ nextInterval = 0
    /\ inflight = {}
    /\ nextFetch = 0
    /\ now = 0
    /\ settled = <<>>
    /\ enabledAt = None
    /\ toggles = 0
    /\ fundingRate = 0
    /\ variant = None

Next ==
    \/ Mount
    \/ Unmount
    \/ FetchSettle
    \/ IntervalFires
    \/ ClickRefresh
    \/ ClickRetry
    \/ ClickToggle
    \/ Tick

Spec == Init /\ [][Next]_vars

----------------------------------------------------------------------------
(* Badge harness: getFundingBadgeVariant applied to every rate of a bounded range *)

Rates == (0 - MaxRate)..MaxRate

InitBadge ==
    /\ phase = "rendered"
    /\ data = None
    /\ loading = TRUE
    /\ error = None
    /\ lastUpdated = None
    /\ autoRefresh = TRUE
    /\ intervals = {}
    /\ cleanup = None
    /\ nextInterval = 0
    /\ inflight = {}
    /\ nextFetch = 0
    /\ now = 0
    /\ settled = <<>>
    /\ enabledAt = None
    /\ toggles = 0
    /\ fundingRate \in Rates
    /\ variant = None

ApplyBadge ==
    /\ variant = None
    /\ variant' = Some(getFundingBadgeVariant(fundingRate))
    /\ UNCHANGED <<phase, view, autoRefresh, intervals, cleanup, nextInterval, inflight,
                   nextFetch, now, settled, enabledAt, toggles, fundingRate>>

NextBadge == ApplyBadge

SpecBadge == InitBadge /\ [][NextBadge]_vars

----------------------------------------------------------------------------
(* Properties *)

Last(seq) == seq[Len(seq)]

\* The invocation f completes in this step while the component is mounted.
Settles(f) == phase = "mounted" /\ f \in inflight /\ f \notin inflight'

\* A timer-initiated fetchData invocation starts in this step.
TimerFetchStarts == \E f \in inflight' \ inflight : f.src = "timer"

\* C1: whenever an invocation completes on the success branch, the view state right
\* after it has data equal to the received body, error none, loading false and
\* lastUpdated at or after the invocation's start.
C1_SuccessAppliesSnapshot ==
    [][\A f \in inflight :
          (Settles(f) /\ Last(settled').ok) =>
              /\ data' = Last(settled').body
              /\ error' = None
              /\ loading' = FALSE
              /\ lastUpdated' # None
              /\ Get(lastUpdated') >= f.start]_vars

\* C2: whenever an invocation completes on a failure branch (rejected GET, or an
\* envelope with success false), data and lastUpdated are what they were just before,
\* error is a non-empty message and loading is false.
C2_FailureKeepsData ==
    [][\A f \in inflight :
          (Settles(f) /\ ~Last(settled').ok) =>
              /\ data' = data
              /\ lastUpdated' = lastUpdated
              /\ Truthy(error')
              /\ loading' = FALSE]_vars

\* C2 witness: a failure has just been applied on top of an earlier snapshot.
C2_Witness ==
    /\ phase = "mounted"
    /\ Len(settled) >= 2
    /\ ~Last(settled).ok
    /\ data # None
    /\ error = Some(FallbackMessage)
    /\ ~loading

\* C3: while the component is mounted, loading is true whenever some invocation is
\* in flight.
C3_LoadingWhileInFlight ==
    (phase = "mounted" /\ inflight # {}) => loading

\* C4: toggling autoRefresh from true to false leaves no interval pending, and no
\* timer-initiated fetch starts while autoRefresh is false.
C4_NoTimerFetchWhileDisabled ==
    [][/\ (autoRefresh /\ ~autoRefresh') => intervals' = {}
       /\ ~autoRefresh => (~TimerFetchStarts /\ (~autoRefresh' => intervals' = {}))]_vars

\* C4 witness: auto-refresh was switched off before the first period ended, the 30 s
\* boundary has passed, and the mount fetch is still the only invocation ever started.
C4_Witness ==
    /\ phase = "mounted"
    /\ ~autoRefresh
    /\ toggles = 1
    /\ enabledAt = Some(0)
    /\ now >= IntervalMs
    /\ nextFetch = 1

\* C5: at most one interval is ever active: exactly one while mounted with autoRefresh
\* true, none while autoRefresh is false or after unmount.
C5_AtMostOneInterval ==
    /\ Cardinality(intervals) <= 1
    /\ (phase = "mounted" /\ autoRefresh) => Cardinality(intervals) = 1
    /\ (~autoRefresh \/ phase = "unmounted") => intervals = {}

\* C5 witness: after an off/on pair of toggles a second interval exists alone.
C5_Witness ==
    /\ phase = "mounted"
    /\ autoRefresh
    /\ toggles >= 2
    /\ nextInterval >= 2
    /\ Cardinality(intervals) = 1

\* C6: with a success snapshot whose markets is the empty sequence and no error, the
\* table body is the single placeholder row and the error screen is not shown.
C6_EmptyMarketsPlaceholder ==
    (/\ phase = "mounted"
     /\ data # None
     /\ error = None
     /\ Get(data).success
     /\ Get(data).markets = Some(<<>>)) =>
        (TableBody = Placeholder /\ Screen # "error")

\* C7: the badge variant follows the ordered ladder with strict comparisons:
\* success iff r > 0.0005, else warning iff r > 0.0001, else destructive iff
\* r < -0.0001, else secondary; 0.0005 is warning, 0.0001, 0 and -0.0001 secondary.
C7_FundingLadder ==
    variant # None =>
        LET r == fundingRate
            v == Get(variant)
        IN /\ v \in {"success", "warning", "destructive", "secondary"}
           /\ (v = "success") <=> (r > 50)
           /\ (v = "warning") <=> (r <= 50 /\ r > 10)
           /\ (v = "destructive") <=> (r < -10)
           /\ (v = "secondary") <=> (r >= -10 /\ r <= 10)
           /\ (r = 50) => (v = "warning")
           /\ (r \in {10, 0, -10}) => (v = "secondary")

\* C7 witness: the ladder has been applied to the boundary rate 0.0005.
C7_Witness == fundingRate = 50 /\ variant = Some("warning")

\* The position in settled of the last success entry, 0 if there is none.
LastOkIndex ==
    LET S == { i \in 1..Len(settled) : settled[i].ok }
    IN IF S = {} THEN 0 ELSE CHOOSE i \in S : \A j \in S : j <= i

\* C8: responses are applied in the order they resolve and no request is cancelled:
\* every invocation started is either in flight or has completed exactly once, and
\* while mounted data is the body of the success response that resolved last.
C8_LastResolvedWins ==
    /\ { f.id : f \in inflight } \cup { settled[i].id : i \in 1..Len(settled) }
           = 0..(nextFetch - 1)
    /\ Cardinality(inflight) + Len(settled) = nextFetch
    /\ (phase = "mounted" /\ LastOkIndex # 0) => data = settled[LastOkIndex].body

\* C8 witness: two overlapping invocations both succeeded with different bodies, the
\* later-issued one resolved first, nothing is in flight, and data is the body of the
\* earlier-issued one.
C8_Witness ==
    /\ phase = "mounted"
    /\ inflight = {}
    /\ \E i \in 1..Len(settled) :
          /\ settled[i].ok
          /\ i < LastOkIndex
          /\ settled[i].id > settled[LastOkIndex].id
          /\ settled[i].body # settled[LastOkIndex].body
          /\ data = settled[LastOkIndex].body

\* C9: while rendered, the error screen is shown whenever error is set, whatever data
\* is; the loading screen only when loading is true and data is absent; otherwise the
\* main dashboard.
C9_ScreenSelection ==
    phase # "unmounted" =>
        /\ error # None => Screen = "error"
        /\ Screen = "loading" => (loading /\ data = None)
        /\ (error = None /\ ~(loading /\ data = None)) => Screen = "main"

\* C9 witness: an error is shown on top of an earlier snapshot.
C9_Witness ==
    /\ phase = "mounted"
    /\ error # None
    /\ data # None
    /\ Screen = "error"

\* C10: a toggle starts no fetch and leaves data, error, loading and lastUpdated
\* unchanged; a timer-initiated fetch starts only once a full interval has elapsed
\* since the latest mount or toggle-to-enabled.
C10_ToggleFrame ==
    [][/\ (autoRefresh' # autoRefresh) =>
              UNCHANGED <<data, error, loading, lastUpdated, inflight, nextFetch>>
       /\ TimerFetchStarts =>
              (enabledAt # None /\ now >= Get(enabledAt) + IntervalMs)]_vars

\* C10 witness: auto-refresh was re-enabled after mount and a timer-initiated fetch,
\* started a full interval after that, is in flight.
C10_Witness ==
    /\ toggles = 2
    /\ autoRefresh
    /\ enabledAt # None
    /\ Get(enabledAt) > 0
    /\ \E f \in inflight : f.src = "timer" /\ f.start >= Get(enabledAt) + IntervalMs

====
